---- MODULE Spec2Model ----
(***************************************************************************)
(* Model of src/routes/auth.js: six Express route handlers that validate   *)
(* a request, call the upstream identity provider through axios and        *)
(* answer with a JSON envelope.  One behaviour of the model is the         *)
(* handling of one request: the handlers share no mutable state.           *)
(*                                                                         *)
(* JavaScript values are records [type, val] so that truthiness, property  *)
(* access on null/undefined and JSON serialisation are computed the way    *)
(* the runtime computes them.  req.body is the object a JSON body parser    *)
(* delivers (the empty object when the request has no body); every field   *)
(* of it, and every upstream answer, is drawn from the sets below.         *)
(***************************************************************************)
EXTENDS Integers, Sequences, FiniteSets, TLC

VARIABLES
    pc,         \* "ready", an "await_*" suspension point, or "done"
    op,         \* the route that was dispatched
    req,        \* the request: [headers, body]
    calls,      \* upstream calls issued for this request, in order
    results,    \* settled upstream promises, in order
    responses,  \* responses sent on res, in order
    uncaught    \* TRUE once an exception left the handler

vars == <<pc, op, req, calls, results, responses, uncaught>>

-----------------------------------------------------------------------------
(* JavaScript values *)

Undefined == [type |-> "undefined", val |-> "undefined"]
Null == [type |-> "null", val |-> "null"]
Str(s) == [type |-> "string", val |-> s]
Bool(b) == [type |-> "boolean", val |-> b]
Arr(s) == [type |-> "array", val |-> s]
Obj(f) == [type |-> "object", val |-> f]
Fn(name) == [type |-> "function", val |-> name]

EmptyObject == [k \in {} |-> Undefined]

\* !x is false exactly for these
Truthy(x) ==
    CASE x.type = "undefined" -> FALSE
      [] x.type = "null" -> FALSE
      [] x.type = "string" -> x.val # ""
      [] x.type = "boolean" -> x.val
      [] OTHER -> TRUE

\* x === y for the values of the model
StrictEquals(x, y) == x.type = y.type /\ x.val = y.val

\* own property of a parsed JSON object (a TLA+ function from names to values)
Get(o, k) == IF k \in DOMAIN o THEN o[k] ELSE Undefined

\* x.k where x is neither null nor undefined
Prop(x, k) == IF x.type = "object" THEN Get(x.val, k) ELSE Undefined

\* x?.k
OptProp(x, k) == IF x.type \in {"undefined", "null"} THEN Undefined ELSE Prop(x, k)

\* JSON.stringify of an object: members whose value is undefined are left out
JsonStringify(o) == [k \in {j \in DOMAIN o : o[j].type # "undefined"} |-> o[k]]

-----------------------------------------------------------------------------
(* Completions of a piece of handler code *)

Respond(status, body) == [kind |-> "respond", status |-> status, body |-> body]
Await(point, call) == [kind |-> "await", point |-> point, call |-> call]
Throw(error) == [kind |-> "throw", error |-> error]

\* a TypeError raised by the runtime: it has no `response`
TypeError == [response |-> Undefined, message |-> Str("TypeError")]

\* the settled promise of an axios call
Fulfilled(data) == [settled |-> "fulfilled", data |-> data]
Rejected(error) == [settled |-> "rejected", error |-> error]

-----------------------------------------------------------------------------
(* Bounds and the inputs drawn from them *)

\* longest errorCauses list an upstream error body carries
MaxCauses == 1

RECURSIVE SeqsUpTo(_, _)
SeqsUpTo(S, n) ==
    IF n = 0 THEN {<<>>}
    ELSE SeqsUpTo(S, n - 1) \cup
         {Append(s, x) : s \in {t \in SeqsUpTo(S, n - 1) : Len(t) = n - 1}, x \in S}

\* values a caller puts in a JSON body field (a missing key reads as undefined)
FieldValues == {Null, Str(""), Str("v")}

\* every object with keys among `keys` and values among `values`
Objects(keys, values) == UNION {[ks -> values] : ks \in SUBSET keys}

SignupBodies == Objects({"firstName", "lastName", "email", "password"}, FieldValues)
LoginBodies == Objects({"username", "password"}, FieldValues)
ResetBodies == Objects({"email"}, FieldValues)
LogoutBodies == Objects({"token"}, FieldValues)

\* PUT /profile bodies: two allow-listed keys, an unknown key, login, and a key
\* that names a property every object literal inherits
ProfileBodyKeys == {"firstName", "email", "role", "login", "constructor"}
ProfileValues(key) ==
    CASE key = "firstName" -> {Undefined, Str("v")}
      [] key = "login" -> {Str(""), Str("v")}
      [] OTHER -> {Str("v")}
ProfileBodies ==
    {b \in Objects(ProfileBodyKeys, {Undefined, Str(""), Str("v")}) :
        \A k \in DOMAIN b : b[k] \in ProfileValues(k)}

\* the Authorization header as its words between single spaces;
\* <<>> is the absent header, <<"Bearer", "">> is "Bearer "
NoHeader == <<>>
AuthHeaders == {NoHeader, <<"Basic", "t">>, <<"Bearer">>, <<"Bearer", "t">>, <<"Bearer", "">>}

\* what the upstream may answer: error bodies of any shape
CauseLists == SeqsUpTo({Obj([errorSummary |-> Str("login: already exists")])}, MaxCauses)

ErrorBodies ==
    {Obj(JsonStringify([errorCode |-> Str("E0000001"), errorSummary |-> s, errorCauses |-> c])) :
        s \in {Undefined, Str("Api validation failed: login")},
        c \in {Undefined, Null} \cup {Arr(l) : l \in CauseLists}}
    \cup {Obj([error |-> Str("invalid_grant"), error_description |-> Str("bad credentials")]),
          Str("<html>502 Bad Gateway</html>")}

Rejections ==
    {Rejected([response |-> Obj([data |-> d]), message |-> Str("Request failed")]) :
        d \in ErrorBodies}
    \cup {Rejected([response |-> Undefined, message |-> Str("ECONNREFUSED")])}

Settled(datas) == {Fulfilled(d) : d \in datas} \cup Rejections

CreateUserResults == Settled({Obj([id |-> Str("00u1")]), Obj(EmptyObject), Null})
TokenResults ==
    Settled({Obj([access_token |-> Str("at"), id_token |-> Str("it"), expires_in |-> Str("3600")]),
             Null})
UserinfoResults == Settled({Obj([sub |-> Str("00u1")]), Obj(EmptyObject), Null})
UpdateUserResults == Settled({Obj(EmptyObject), Null})
ResetResults == Settled({Obj(EmptyObject), Null})
RevokeResults == Settled({Str(""), Null})

-----------------------------------------------------------------------------
(* POST /signup *)

\* SignupTry with the password left out of the required-field test
SignupTryPasswordUnchecked(body) ==
    LET firstName == Get(body, "firstName")
        lastName == Get(body, "lastName")
        email == Get(body, "email")
        password == Get(body, "password")
    IN  IF ~Truthy(firstName) \/ ~Truthy(lastName) \/ ~Truthy(email)
        THEN <<Respond(400, [success |-> Bool(FALSE),
                             message |-> Str("Missing required fields")])>>
        ELSE <<Await("await_createUser",
                     [endpoint |-> "createUser",
                      payload |-> [profile |-> [firstName |-> firstName,
                                                lastName |-> lastName,
                                                email |-> email,
                                                login |-> email],
                                   credentials |-> [password |-> [value |-> password]]]])>>

\* lines 28-58: up to the await of the create-user call
SignupTry(body) ==
    LET firstName == Get(body, "firstName")
        lastName == Get(body, "lastName")
        email == Get(body, "email")
        password == Get(body, "password")
    IN  IF ~Truthy(firstName) \/ ~Truthy(lastName) \/ ~Truthy(email) \/ ~Truthy(password)
        THEN <<Respond(400, [success |-> Bool(FALSE),
                             message |-> Str("Missing required fields")])>>
        ELSE <<Await("await_createUser",
                     [endpoint |-> "createUser",
                      payload |-> [profile |-> [firstName |-> firstName,
                                                lastName |-> lastName,
                                                email |-> email,
                                                login |-> email],
                                   credentials |-> [password |-> [value |-> password]]]])>>

\* lines 54-64: the await settles
SignupAfter(result) ==
    IF result.settled = "rejected" THEN <<Throw(result.error)>>
    ELSE IF result.data.type \in {"undefined", "null"} THEN <<Throw(TypeError)>>
    ELSE <<Respond(201, [success |-> Bool(TRUE),
                         message |-> Str("User created successfully"),
                         userId |-> Prop(result.data, "id")])>>

\* lines 65-81
SignupCatch(error) ==
    IF Truthy(OptProp(OptProp(error.response, "data"), "errorCauses"))
    THEN <<Respond(400, [success |-> Bool(FALSE),
                         message |-> Prop(Prop(error.response, "data"), "errorSummary"),
                         errors |-> Prop(Prop(error.response, "data"), "errorCauses")])>>
    ELSE <<Respond(500, [success |-> Bool(FALSE),
                         message |-> Str("Error creating user account")])>>

-----------------------------------------------------------------------------
(* POST /login *)

\* lines 87-119
LoginTry(body) ==
    LET username == Get(body, "username")
        password == Get(body, "password")
    IN  IF ~Truthy(username) \/ ~Truthy(password)
        THEN <<Respond(400, [success |-> Bool(FALSE),
                             message |-> Str("Username and password are required")])>>
        ELSE <<Await("await_token",
                     [endpoint |-> "token",
                      payload |-> [username |-> username,
                                   password |-> password,
                                   grant_type |-> Str("password"),
                                   scope |-> Str("openid profile email")]])>>

\* lines 110-127
LoginAfter(result) ==
    IF result.settled = "rejected" THEN <<Throw(result.error)>>
    ELSE IF result.data.type \in {"undefined", "null"} THEN <<Throw(TypeError)>>
    ELSE <<Respond(200, [success |-> Bool(TRUE),
                         message |-> Str("Login successful"),
                         token |-> Prop(result.data, "access_token"),
                         id_token |-> Prop(result.data, "id_token"),
                         expires_in |-> Prop(result.data, "expires_in")])>>

\* LoginCatch written like the signup catch: the upstream summary is passed on
LoginCatchPassesSummary(error) ==
    IF Truthy(OptProp(OptProp(error.response, "data"), "errorCauses"))
    THEN <<Respond(401, [success |-> Bool(FALSE),
                         message |-> Prop(Prop(error.response, "data"), "errorSummary")])>>
    ELSE <<Respond(401, [success |-> Bool(FALSE), message |-> Str("Authentication failed")])>>

\* lines 128-135
LoginCatch(error) ==
    <<Respond(401, [success |-> Bool(FALSE), message |-> Str("Authentication failed")])>>

-----------------------------------------------------------------------------
(* The Authorization header *)

\* !authHeader
HeaderMissing(h) == h = NoHeader \/ h = <<"">>

\* authHeader.startsWith('Bearer ')
StartsWithBearer(h) == Len(h) >= 2 /\ h[1] = "Bearer"

\* authHeader.split(' ')[1]
BearerToken(h) == h[2]

-----------------------------------------------------------------------------
(* GET /profile *)

\* lines 142-161
GetProfileTry(authHeader) ==
    IF HeaderMissing(authHeader) \/ ~StartsWithBearer(authHeader)
    THEN <<Respond(401, [success |-> Bool(FALSE), message |-> Str("No token provided")])>>
    ELSE <<Await("await_userinfo",
                 [endpoint |-> "userinfo", payload |-> BearerToken(authHeader)])>>

\* lines 154-166
GetProfileAfter(result) ==
    IF result.settled = "rejected" THEN <<Throw(result.error)>>
    ELSE <<Respond(200, [success |-> Bool(TRUE), profile |-> result.data])>>

\* GetProfileCatch answering 500 as the signup and logout catches do
GetProfileCatchServerError(error) ==
    <<Respond(500, [success |-> Bool(FALSE), message |-> Str("Failed to fetch user profile")])>>

\* lines 167-174
GetProfileCatch(error) ==
    <<Respond(401, [success |-> Bool(FALSE), message |-> Str("Failed to fetch user profile")])>>

-----------------------------------------------------------------------------
(* PUT /profile *)

\* lines 220-251: the own properties of the allowedFields literal
allowedFields ==
    [firstName |-> "firstName", lastName |-> "lastName", middleName |-> "middleName",
     honorificPrefix |-> "honorificPrefix", honorificSuffix |-> "honorificSuffix",
     email |-> "email", title |-> "title", displayName |-> "displayName",
     nickName |-> "nickName", profileUrl |-> "profileUrl", secondEmail |-> "secondEmail",
     mobilePhone |-> "mobilePhone", primaryPhone |-> "primaryPhone",
     streetAddress |-> "streetAddress", city |-> "city", state |-> "state",
     zipCode |-> "zipCode", countryCode |-> "countryCode",
     postalAddress |-> "postalAddress", preferredLanguage |-> "preferredLanguage",
     locale |-> "locale", timezone |-> "timezone", userType |-> "userType",
     employeeNumber |-> "employeeNumber", costCenter |-> "costCenter",
     organization |-> "organization", division |-> "division",
     department |-> "department", managerId |-> "managerId", manager |-> "manager"]

\* allowedFields is an object literal, so allowedFields[key] also finds what the
\* literal inherits from Object.prototype; each is given with its String() form,
\* which is the property name it becomes when used as a key
ObjectPrototype ==
    [constructor |-> "function Object() { [native code] }",
     toString |-> "function toString() { [native code] }",
     valueOf |-> "function valueOf() { [native code] }",
     hasOwnProperty |-> "function hasOwnProperty() { [native code] }",
     isPrototypeOf |-> "function isPrototypeOf() { [native code] }"]

\* line 255: allowedFields[key]
AllowedFieldsLookup(key) ==
    IF key \in DOMAIN allowedFields THEN Str(allowedFields[key])
    ELSE IF key \in DOMAIN ObjectPrototype THEN Fn(ObjectPrototype[key])
    ELSE Undefined

\* line 256: the property name profile[allowedFields[key]] assigns to
PropertyKey(x) == x.val

\* lines 254-258: the loop over Object.entries(req.body)
MapFields(body) ==
    LET taken == {k \in DOMAIN body :
                    Truthy(AllowedFieldsLookup(k)) /\ ~StrictEquals(body[k], Undefined)}
        names == {PropertyKey(AllowedFieldsLookup(k)) : k \in taken}
    IN  [n \in names |-> body[CHOOSE k \in taken : PropertyKey(AllowedFieldsLookup(k)) = n]]

\* lines 269-273: profileUpdate.profile.login = req.body.login
WithLogin(profile, body) ==
    IF Truthy(Get(body, "login"))
    THEN [n \in DOMAIN profile \cup {"login"} |->
            IF n = "login" THEN Get(body, "login") ELSE profile[n]]
    ELSE profile

\* lines 181-202
UpdateProfileTry(authHeader) ==
    IF HeaderMissing(authHeader) \/ ~StartsWithBearer(authHeader)
    THEN <<Respond(401, [success |-> Bool(FALSE), message |-> Str("No token provided")])>>
    ELSE <<Await("await_userinfoForUpdate",
                 [endpoint |-> "userinfo", payload |-> BearerToken(authHeader)])>>

\* UserinfoCatch without its return: the handler goes on with userInfo undefined
UserinfoCatchFallsThrough(error) ==
    <<Respond(401, [success |-> Bool(FALSE), message |-> Str("Invalid token")]),
      Throw(TypeError)>>

\* lines 204-209: the inner catch returns from the handler
UserinfoCatch(error) ==
    <<Respond(401, [success |-> Bool(FALSE), message |-> Str("Invalid token")])>>

\* lines 212-280: from the user id to the await of the update call
BuildUpdate(body, userInfo) ==
    IF userInfo.type \in {"undefined", "null"} THEN <<Throw(TypeError)>>
    ELSE LET userId == Prop(userInfo, "sub")
             profile == MapFields(body)
         IN  IF Cardinality(DOMAIN profile) = 0
             THEN <<Respond(400, [success |-> Bool(FALSE),
                                  message |-> Str("No valid fields to update")])>>
             ELSE <<Await("await_updateUser",
                          [endpoint |-> "updateUser",
                           payload |-> [userId |-> userId,
                                        profile |-> WithLogin(profile, body)]])>>

\* UpdateProfileAfterUserinfo with an inner catch that swallows the failure and
\* goes on with an empty userInfo
UpdateProfileAfterUserinfoSwallowed(body, result) ==
    IF result.settled = "rejected" THEN BuildUpdate(body, Obj(EmptyObject))
    ELSE BuildUpdate(body, result.data)

\* lines 194-280: the userinfo await settles
UpdateProfileAfterUserinfo(body, result) ==
    IF result.settled = "rejected" THEN UserinfoCatch(result.error)
    ELSE BuildUpdate(body, result.data)

\* lines 276-285: the update await settles
UpdateProfileAfterUpdate(result) ==
    IF result.settled = "rejected" THEN <<Throw(result.error)>>
    ELSE <<Respond(200, [success |-> Bool(TRUE),
                         message |-> Str("Profile updated successfully")])>>

\* lines 286-302
UpdateProfileCatch(error) ==
    IF Truthy(OptProp(OptProp(error.response, "data"), "errorCauses"))
    THEN <<Respond(400, [success |-> Bool(FALSE),
                         message |-> Prop(Prop(error.response, "data"), "errorSummary"),
                         errors |-> Prop(Prop(error.response, "data"), "errorCauses")])>>
    ELSE <<Respond(500, [success |-> Bool(FALSE),
                         message |-> Str("Failed to update profile")])>>

-----------------------------------------------------------------------------
(* POST /reset-password *)

\* lines 308-322
ResetPasswordTry(body) ==
    LET email == Get(body, "email")
    IN  IF ~Truthy(email)
        THEN <<Respond(400, [success |-> Bool(FALSE), message |-> Str("Email is required")])>>
        ELSE <<Await("await_resetPassword",
                     [endpoint |-> "resetPassword", payload |-> email])>>

\* lines 318-327
ResetPasswordAfter(result) ==
    IF result.settled = "rejected" THEN <<Throw(result.error)>>
    ELSE <<Respond(200, [success |-> Bool(TRUE), message |-> Str("Password reset email sent")])>>

\* ResetPasswordCatch telling an upstream answer from a transport failure
ResetPasswordCatchTellsCause(error) ==
    IF error.response.type = "undefined"
    THEN <<Respond(400, [success |-> Bool(FALSE),
                         message |-> Str("Failed to send password reset email")])>>
    ELSE <<Respond(400, [success |-> Bool(FALSE), message |-> Str("User not found")])>>

\* lines 328-335
ResetPasswordCatch(error) ==
    <<Respond(400, [success |-> Bool(FALSE),
                    message |-> Str("Failed to send password reset email")])>>

-----------------------------------------------------------------------------
(* POST /logout *)

\* lines 341-366
LogoutTry(body) ==
    LET token == Get(body, "token")
    IN  IF ~Truthy(token)
        THEN <<Respond(400, [success |-> Bool(FALSE), message |-> Str("Token is required")])>>
        ELSE <<Await("await_revoke",
                     [endpoint |-> "revoke",
                      payload |-> [token |-> token,
                                   token_type_hint |-> Str("access_token")]])>>

\* lines 358-371
LogoutAfter(result) ==
    IF result.settled = "rejected" THEN <<Throw(result.error)>>
    ELSE <<Respond(200, [success |-> Bool(TRUE), message |-> Str("Logged out successfully")])>>

\* lines 372-379
LogoutCatch(error) ==
    <<Respond(500, [success |-> Bool(FALSE), message |-> Str("Failed to logout")])>>

-----------------------------------------------------------------------------
(* Running a handler *)

Last(s) == s[Len(s)]
Front(s) == SubSeq(s, 1, Len(s) - 1)

\* the try block ended with an exception
Throws(effects) == Len(effects) > 0 /\ Last(effects).kind = "throw"

\* try { ... } catch (error) { ... } of each route: an exception that ends the
\* try block runs the route's catch clause
SignupTryCatch(effects) ==
    IF Throws(effects) THEN Front(effects) \o SignupCatch(Last(effects).error) ELSE effects

LoginTryCatch(effects) ==
    IF Throws(effects) THEN Front(effects) \o LoginCatch(Last(effects).error) ELSE effects

GetProfileTryCatch(effects) ==
    IF Throws(effects) THEN Front(effects) \o GetProfileCatch(Last(effects).error) ELSE effects

UpdateProfileTryCatch(effects) ==
    IF Throws(effects) THEN Front(effects) \o UpdateProfileCatch(Last(effects).error) ELSE effects

ResetPasswordTryCatch(effects) ==
    IF Throws(effects) THEN Front(effects) \o ResetPasswordCatch(Last(effects).error) ELSE effects

LogoutTryCatch(effects) ==
    IF Throws(effects) THEN Front(effects) \o LogoutCatch(Last(effects).error) ELSE effects

\* res.status(s).json(body) for every response among the effects, in order
RECURSIVE Sent(_)
Sent(effects) ==
    IF effects = <<>> THEN <<>>
    ELSE LET e == Head(effects)
         IN  (IF e.kind = "respond"
              THEN <<[status |-> e.status, body |-> JsonStringify(e.body)]>>
              ELSE <<>>) \o Sent(Tail(effects))

\* the upstream calls among the effects, in order
RECURSIVE Issued(_)
Issued(effects) ==
    IF effects = <<>> THEN <<>>
    ELSE LET e == Head(effects)
         IN  (IF e.kind = "await" THEN <<e.call>> ELSE <<>>) \o Issued(Tail(effects))

Escapes(effects) == \E i \in 1..Len(effects) : effects[i].kind = "throw"

\* the handler runs until it suspends on an upstream call or returns
Run(effects) ==
    /\ responses' = responses \o Sent(effects)
    /\ calls' = calls \o Issued(effects)
    /\ uncaught' = (uncaught \/ Escapes(effects))
    /\ pc' = IF Len(effects) > 0 /\ Last(effects).kind = "await"
             THEN Last(effects).point ELSE "done"

Dispatch(route, authHeader, body, effects) ==
    /\ op' = route
    /\ req' = [authorization |-> authHeader, body |-> body]
    /\ results' = results
    /\ Run(effects)

Settle(result, effects) ==
    /\ results' = Append(results, result)
    /\ UNCHANGED <<op, req>>
    /\ Run(effects)

-----------------------------------------------------------------------------
(* The routes and the points where their upstream calls settle *)

Init ==
    /\ pc = "ready"
    /\ op = "none"
    /\ req = [authorization |-> NoHeader, body |-> EmptyObject]
    /\ calls = <<>>
    /\ results = <<>>
    /\ responses = <<>>
    /\ uncaught = FALSE

Signup ==
    /\ pc = "ready"
    /\ \E body \in SignupBodies :
           Dispatch("signup", NoHeader, body, SignupTryCatch(SignupTry(body)))

SignupSettles ==
    /\ pc = "await_createUser"
    /\ \E r \in CreateUserResults :
           Settle(r, SignupTryCatch(SignupAfter(r)))

Login ==
    /\ pc = "ready"
    /\ \E body \in LoginBodies :
           Dispatch("login", NoHeader, body, LoginTryCatch(LoginTry(body)))

LoginSettles ==
    /\ pc = "await_token"
    /\ \E r \in TokenResults :
           Settle(r, LoginTryCatch(LoginAfter(r)))

GetProfile ==
    /\ pc = "ready"
    /\ \E h \in AuthHeaders :
           Dispatch("getProfile", h, EmptyObject, GetProfileTryCatch(GetProfileTry(h)))

GetProfileSettles ==
    /\ pc = "await_userinfo"
    /\ \E r \in UserinfoResults :
           Settle(r, GetProfileTryCatch(GetProfileAfter(r)))

UpdateProfile ==
    /\ pc = "ready"
    /\ \E h \in AuthHeaders, body \in ProfileBodies :
           Dispatch("updateProfile", h, body, UpdateProfileTryCatch(UpdateProfileTry(h)))

UpdateProfileUserinfoSettles ==
    /\ pc = "await_userinfoForUpdate"
    /\ \E r \in UserinfoResults :
           Settle(r,
                  UpdateProfileTryCatch(UpdateProfileAfterUserinfo(req.body, r)))

UpdateProfileUpdateSettles ==
    /\ pc = "await_updateUser"
    /\ \E r \in UpdateUserResults :
           Settle(r,
                  UpdateProfileTryCatch(UpdateProfileAfterUpdate(r)))

ResetPassword ==
    /\ pc = "ready"
    /\ \E body \in ResetBodies :
           Dispatch("resetPassword", NoHeader, body,
                    ResetPasswordTryCatch(ResetPasswordTry(body)))

ResetPasswordSettles ==
    /\ pc = "await_resetPassword"
    /\ \E r \in ResetResults :
           Settle(r, ResetPasswordTryCatch(ResetPasswordAfter(r)))

Logout ==
    /\ pc = "ready"
    /\ \E body \in LogoutBodies :
           Dispatch("logout", NoHeader, body, LogoutTryCatch(LogoutTry(body)))

LogoutSettles ==
    /\ pc = "await_revoke"
    /\ \E r \in RevokeResults :
           Settle(r, LogoutTryCatch(LogoutAfter(r)))

Next ==
    \/ Signup
    \/ SignupSettles
    \/ Login
    \/ LoginSettles
    \/ GetProfile
    \/ GetProfileSettles
    \/ UpdateProfile
    \/ UpdateProfileUserinfoSettles
    \/ UpdateProfileUpdateSettles
    \/ ResetPassword
    \/ ResetPasswordSettles
    \/ Logout
    \/ LogoutSettles

Spec == Init /\ [][Next]_vars

\* every upstream call returns or fails: axios settles each promise, and the
\* event loop then resumes the handler awaiting it
Settles ==
    \/ SignupSettles
    \/ LoginSettles
    \/ GetProfileSettles
    \/ UpdateProfileUserinfoSettles
    \/ UpdateProfileUpdateSettles
    \/ ResetPasswordSettles
    \/ LogoutSettles

FairSpec == Spec /\ WF_vars(Settles)

-----------------------------------------------------------------------------
(* What the properties speak of *)

Done == pc = "done"
Response == responses[1]
Status == Response.status
Envelope(status, success, message) ==
    [status |-> status, body |-> [success |-> Bool(success), message |-> Str(message)]]

Settled1 == Len(results) >= 1
Failed1 == Settled1 /\ results[1].settled = "rejected"
Succeeded1 == Settled1 /\ results[1].settled = "fulfilled"
Settled2 == Len(results) >= 2
Failed2 == Settled2 /\ results[2].settled = "rejected"

Empty(body, key) == key \notin DOMAIN body \/ ~Truthy(body[key])
BadAuthorization(h) == Len(h) < 2 \/ h[1] # "Bearer"
UpdateCalls == {i \in 1..Len(calls) : calls[i].endpoint = "updateUser"}

\* the userinfo call of PUT /profile returned a user object
ValidToken ==
    /\ op = "updateProfile"
    /\ Succeeded1
    /\ Truthy(OptProp(results[1].data, "sub"))

\* the keys of the request body that are in the allow-list
Recognized == DOMAIN req.body \cap DOMAIN allowedFields

\* the input a route requires is missing, and the route can tell without the upstream
LocallyMissing ==
    \/ op = "signup" /\ \E k \in {"firstName", "lastName", "email", "password"} : Empty(req.body, k)
    \/ op = "login" /\ \E k \in {"username", "password"} : Empty(req.body, k)
    \/ op \in {"getProfile", "updateProfile"} /\ BadAuthorization(req.authorization)
    \/ op = "resetPassword" /\ Empty(req.body, "email")
    \/ op = "logout" /\ Empty(req.body, "token")

NoRecognizedField ==
    op = "updateProfile" /\ ~BadAuthorization(req.authorization) /\ Recognized = {}

RejectedLocally ==
    /\ calls = <<>>
    /\ Len(responses) = 1
    /\ Status \in {400, 401}

-----------------------------------------------------------------------------
(* C1 *)

\* C1 as stated: whenever the required input of any of the six operations is
\* missing (for update-profile also: a body with zero recognized profile
\* fields), the response status is 400 or 401 and no upstream call has been made.
C1_MissingInputNoUpstreamCall ==
    (LocallyMissing \/ NoRecognizedField) => RejectedLocally

\* C1 as amended: a missing body field (signup, login, reset-password, logout) or
\* a missing or malformed Authorization header (get-profile, update-profile) is
\* answered 400 or 401 with no upstream call; update-profile with a well-formed
\* header looks at the body only after the userinfo call, so with zero
\* recognized fields the userinfo call is still the first upstream call, and if
\* it fails the answer is 401 and it stays the only call.
C1_MissingInputRejected ==
    /\ LocallyMissing => RejectedLocally
    /\ NoRecognizedField =>
        /\ Len(calls) >= 1
        /\ calls[1].endpoint = "userinfo"
        /\ Settled1 \/ responses = <<>>
        /\ Failed1 => (Len(calls) = 1 /\ Len(responses) = 1 /\ Status = 401)

C1_Witness ==
    /\ NoRecognizedField
    /\ "role" \in DOMAIN req.body
    /\ Failed1
    /\ Done
    /\ Status = 401

-----------------------------------------------------------------------------
(* C2 *)

\* C2: login with non-empty username and password whose token call fails is
\* answered 401 with exactly {success: false, message: 'Authentication failed'},
\* whatever the upstream error was.
C2_LoginFailureUniform ==
    (op = "login" /\ Failed1) =>
        responses = <<Envelope(401, FALSE, "Authentication failed")>>

C2_Witness ==
    /\ op = "login"
    /\ Failed1
    /\ Truthy(OptProp(OptProp(results[1].error.response, "data"), "errorCauses"))
    /\ Truthy(OptProp(OptProp(results[1].error.response, "data"), "errorSummary"))
    /\ Done

-----------------------------------------------------------------------------
(* C3 *)

\* C3: in update-profile the update call is issued only after the userinfo call
\* has returned successfully; if the userinfo call fails the answer is 401 and
\* the update call is never issued, for any request body.
C3_UpdateAfterUserinfo ==
    op = "updateProfile" =>
        /\ \A i \in UpdateCalls :
              /\ i = 2
              /\ calls[1].endpoint = "userinfo"
              /\ Succeeded1
        /\ Failed1 =>
              /\ Done
              /\ UpdateCalls = {}
              /\ Len(responses) = 1
              /\ Status = 401

C3_Witness ==
    /\ op = "updateProfile"
    /\ Failed1
    /\ Done
    /\ "firstName" \in DOMAIN req.body
    /\ Truthy(req.body["firstName"])

-----------------------------------------------------------------------------
(* C4 *)

\* the patch the claim expects: the allow-listed keys of the body whose value is
\* not undefined, under their mapped names, with the caller's values
ExpectedProfile ==
    LET keys == {k \in Recognized : req.body[k].type # "undefined"}
    IN  [n \in {allowedFields[k] : k \in keys} |->
            req.body[CHOOSE k \in keys : allowedFields[k] = n]]

\* C4 as stated: with a valid token, a body containing only field names outside
\* the allow-list yields 400 and no update call; a body containing recognized
\* fields yields exactly one update call whose profile holds only the mapped
\* names of the allow-listed keys present with a value, each with the caller's
\* value; no key outside the allow-list appears in it.
C4_OnlyAllowListedFieldsPatched ==
    ValidToken =>
        /\ Recognized = {} =>
              /\ UpdateCalls = {}
              /\ Len(responses) = 1
              /\ Status = 400
        /\ DOMAIN ExpectedProfile # {} =>
              /\ Cardinality(UpdateCalls) = 1
              /\ \A i \in UpdateCalls : calls[i].payload.profile = ExpectedProfile

-----------------------------------------------------------------------------
(* C5 *)

\* C5 as stated: every response carries a boolean success, and every response
\* with success = false carries a message that is a string, whatever the
\* upstream error body was.
C5_EnvelopeInvariant ==
    \A i \in 1..Len(responses) :
        LET body == responses[i].body
        IN  /\ "success" \in DOMAIN body
            /\ body["success"].type = "boolean"
            /\ ~body["success"].val =>
                  /\ "message" \in DOMAIN body
                  /\ body["message"].type = "string"

-----------------------------------------------------------------------------
(* C6 *)

StatusesOf(route) ==
    CASE route = "signup" -> {201, 400, 500}
      [] route = "login" -> {200, 400, 401}
      [] route = "getProfile" -> {200, 401}
      [] route = "updateProfile" -> {200, 400, 401, 500}
      [] route = "resetPassword" -> {200, 400}
      [] route = "logout" -> {200, 400, 500}
      [] OTHER -> {}

\* C6: every response of a route has a status of the route's set, and
\* success is true exactly when the status is 200 or 201.
C6_StatusSets ==
    \A i \in 1..Len(responses) :
        /\ responses[i].status \in StatusesOf(op)
        /\ "success" \in DOMAIN responses[i].body
        /\ StrictEquals(responses[i].body["success"], Bool(TRUE))
              <=> responses[i].status \in {200, 201}

\* an exception raised inside the handler: the token call returned null
C6_Witness ==
    /\ op = "login"
    /\ Succeeded1
    /\ results[1].data.type = "null"
    /\ Done
    /\ Status = 401

-----------------------------------------------------------------------------
(* C7 *)

\* C7: password reset with a non-empty email answers {success: true} at 200
\* when the upstream call succeeds and the same 400 {success: false, message:
\* 'Failed to send password reset email'} on any upstream failure; with a missing
\* email it answers 400 and the upstream is not called.
C7_ResetHidesExistence ==
    op = "resetPassword" =>
        /\ Empty(req.body, "email") => (calls = <<>> /\ Len(responses) = 1 /\ Status = 400)
        /\ Succeeded1 =>
              /\ Len(responses) = 1
              /\ Status = 200
              /\ StrictEquals(Response.body["success"], Bool(TRUE))
        /\ Failed1 =>
              responses = <<Envelope(400, FALSE, "Failed to send password reset email")>>

C7_Witness ==
    /\ op = "resetPassword"
    /\ Failed1
    /\ results[1].error.response.type = "object"
    /\ Done

-----------------------------------------------------------------------------
(* C8 *)

\* the call that creates the user (signup) or updates it (update-profile) failed
WriteCallFailed ==
    \/ op = "signup" /\ Failed1
    \/ op = "updateProfile" /\ Failed2

WriteCallError == IF op = "signup" THEN results[1].error ELSE results[2].error

GenericMessage == IF op = "signup" THEN "Error creating user account" ELSE "Failed to update profile"

\* errorSummary plus a list of errorCauses
ValidationShaped(error) ==
    LET data == OptProp(error.response, "data")
    IN  /\ OptProp(data, "errorSummary").type = "string"
        /\ OptProp(data, "errorCauses").type = "array"

\* C8 as stated: a failed create-user or update call whose response has the
\* validation-error shape is answered 400 with the upstream summary as message
\* and the upstream causes as errors; every other failure of that call is
\* answered 500 with the operation's generic message and nothing else.
C8_UpstreamErrorInterpretation ==
    WriteCallFailed =>
        /\ Len(responses) = 1
        /\ IF ValidationShaped(WriteCallError)
           THEN /\ Status = 400
                /\ DOMAIN Response.body = {"success", "message", "errors"}
                /\ StrictEquals(Response.body["message"],
                                Prop(Prop(WriteCallError.response, "data"), "errorSummary"))
                /\ StrictEquals(Response.body["errors"],
                                Prop(Prop(WriteCallError.response, "data"), "errorCauses"))
           ELSE Response = Envelope(500, FALSE, GenericMessage)

-----------------------------------------------------------------------------
(* C9 *)

\* C9: every request is answered exactly once: no second response, no
\* exception leaves the handler, and, every upstream call settling, a
\* dispatched request is eventually answered.
C9_AnsweredExactlyOnce ==
    /\ [](Len(responses) <= 1 /\ ~uncaught)
    /\ [](Done => Len(responses) = 1)
    /\ (op # "none") ~> (Done /\ Len(responses) = 1)

\* the inner userinfo failure path of update-profile
C9_Witness ==
    /\ op = "updateProfile"
    /\ Failed1
    /\ Done
    /\ Len(responses) = 1

-----------------------------------------------------------------------------
(* C10 *)

\* C10 as stated: with a valid token, whenever the body contains a login field
\* its value is in the patch sent upstream, whatever else the body contains.
C10_LoginPassedThrough ==
    (ValidToken /\ "login" \in DOMAIN req.body) =>
        \E i \in UpdateCalls :
            /\ "login" \in DOMAIN calls[i].payload.profile
            /\ StrictEquals(calls[i].payload.profile["login"], req.body["login"])

====
